---- MODULE Spec2Model ----
(***************************************************************************)
(* Stealth Med RWEye: the two dashboards of the repository,                *)
(*   app = "v1"  : src/app_v1.py  (publications + Rx volume by ATC)        *)
(*   app = "poc" : src/poc/app.py (smr3/prr3, cascading ATC, ADE drill)    *)
(* modelled as one script run per pass: load, sidebar widgets, filter,     *)
(* aggregate or sort, show, (poc) ADE drill-down and download, rerun.      *)
(*                                                                         *)
(* Data representation                                                     *)
(*   a string is a sequence of one-character strings, <<"N","6">> = "N6";  *)
(*   NaN (a missing string cell) is <<"NaN">>, which is no string;         *)
(*   a float cell is <<>> (NaN) or <<n>>; in poc/app.py n counts tenths    *)
(*   (3.2 is <<32>>), in app_v1.py n is the integer itself.                *)
(***************************************************************************)
EXTENDS Integers, Sequences, FiniteSets, TLC

VARIABLES app, pc, raw, loaded, levelOpts, levelSel, ctl, hier, filtered,
          result, pick, ade, err

vars == <<app, pc, raw, loaded, levelOpts, levelSel, ctl, hier, filtered,
          result, pick, ade, err>>

\* ------------------------------------------------------------------ bounds
MaxSmrRows == 2
MaxPrrRows == 3
MaxPubRows == 2
MaxRxRows == 2
MaxTopExtra == 1

\* ----------------------------------------------------------------- strings
NaN == <<"NaN">>
NaNum == <<>>

\* The characters of the model in code point order ("~" stands for the em
\* dash U+2014 of app_v1.py's labels: above every ASCII letter, as it is).
Chars ==
  <<" ", "(", ")", "-", ".",
    "0", "1", "2", "3", "4", "5", "6", "7", "8", "9",
    "A", "B", "C", "D", "E", "F", "G", "H", "I", "J", "K", "L", "M",
    "N", "O", "P", "Q", "R", "S", "T", "U", "V", "W", "X", "Y", "Z",
    "a", "b", "c", "d", "e", "f", "g", "h", "i", "j", "k", "l", "m",
    "n", "o", "p", "q", "r", "s", "t", "u", "v", "w", "x", "y", "z",
    "~">>

Ord(c) == CHOOSE i \in 1..Len(Chars) : Chars[i] = c

Digits == {"0", "1", "2", "3", "4", "5", "6", "7", "8", "9"}

IsUpper(c) == Ord(c) >= Ord("A") /\ Ord(c) <= Ord("Z")

\* str < str of Python: lexicographic by code point
RECURSIVE StrLess(_, _)
StrLess(a, b) ==
  IF b = <<>> THEN FALSE
  ELSE IF a = <<>> THEN TRUE
  ELSE IF Head(a) = Head(b) THEN StrLess(Tail(a), Tail(b))
  ELSE Ord(Head(a)) < Ord(Head(b))

\* sorted(vals) of a collection of distinct strings
RECURSIVE sorted(_)
sorted(S) ==
  IF S = {} THEN <<>>
  ELSE LET m == CHOOSE x \in S : \A y \in S \ {x} : StrLess(x, y)
       IN <<m>> \o sorted(S \ {m})

RECURSIVE LStrip(_)
LStrip(s) == IF s # <<>> /\ Head(s) = " " THEN LStrip(Tail(s)) ELSE s

RECURSIVE RStrip(_)
RStrip(s) ==
  IF s # <<>> /\ s[Len(s)] = " " THEN RStrip(SubSeq(s, 1, Len(s) - 1)) ELSE s

\* str.strip()
strip(s) == RStrip(LStrip(s))

\* str.casefold() (ASCII letters)
casefold(s) ==
  [i \in 1..Len(s) |->
     IF IsUpper(s[i]) THEN Chars[Ord(s[i]) - Ord("A") + Ord("a")] ELSE s[i]]

\* .astype(str): NaN becomes the string "nan"
astype_str(c) == IF c = NaN THEN <<"n", "a", "n">> ELSE c

\* pd.read_csv's default NA strings (those the inputs use): the cell is NaN
NaStrings == {<<>>, <<"n", "a", "n">>, <<"N", "A">>}

read_csv_cell(c) == IF c \in NaStrings THEN NaN ELSE c

RECURSIVE DigitsVal(_)
DigitsVal(s) ==
  IF s = <<>> THEN 0
  ELSE 10 * DigitsVal(SubSeq(s, 1, Len(s) - 1)) + (Ord(s[Len(s)]) - Ord("0"))

AllDigits(s) == \A i \in 1..Len(s) : s[i] \in Digits

\* pd.to_numeric(errors="coerce") of a str-or-NaN cell, in tenths; inputs
\* carry at most one fractional digit.
to_numeric(c) ==
  IF c = NaN THEN NaNum
  ELSE LET t == strip(c)
           neg == t # <<>> /\ Head(t) = "-"
           u == IF t # <<>> /\ Head(t) \in {"-"} THEN Tail(t) ELSE t
           dots == {i \in 1..Len(u) : u[i] = "."}
           sign == IF neg THEN -1 ELSE 1
       IN IF u # <<>> /\ AllDigits(u) THEN <<sign * 10 * DigitsVal(u)>>
          ELSE IF Cardinality(dots) = 1
            THEN LET d == CHOOSE i \in dots : TRUE
                     ip == SubSeq(u, 1, d - 1)
                     fp == SubSeq(u, d + 1, Len(u))
                 IN IF AllDigits(ip) /\ AllDigits(fp) /\ Len(fp) <= 1
                       /\ Len(ip) + Len(fp) >= 1
                    THEN <<sign * (10 * DigitsVal(ip) + DigitsVal(fp))>>
                    ELSE NaNum
            ELSE NaNum

\* ------------------------------------------------------- table helpers
Indices(rows) == [i \in 1..Len(rows) |-> i]

Range(f) == {f[i] : i \in DOMAIN f}

\* the rows at the positions idx, in that order
Take(rows, idx) == [i \in 1..Len(idx) |-> rows[idx[i]]]

\* DataFrame.sort_values(by, ascending, na_position="last"): the rows with
\* a NaN key follow the others in their original order; pandas' default
\* sort is not stable, so rows with equal keys may come in any order.
RECURSIVE Orderings(_, _, _, _)
Orderings(rows, by, ascending, S) ==
  IF S = {} THEN {<<>>}
  ELSE LET first == {i \in S : \A j \in S :
                       IF ascending THEN rows[i][by][1] <= rows[j][by][1]
                       ELSE rows[i][by][1] >= rows[j][by][1]}
       IN UNION {{<<i>> \o t : t \in Orderings(rows, by, ascending, S \ {i})} :
                 i \in first}

\* a sort with na_position="first"
sort_values_nulls_first(rows, by, ascending) ==
  LET nn == {i \in 1..Len(rows) : rows[i][by] # NaNum}
      na == SelectSeq(Indices(rows), LAMBDA i : rows[i][by] = NaNum)
  IN {Take(rows, na \o p) : p \in Orderings(rows, by, ascending, nn)}

\* sort_values(by, ascending=..., na_position="last")
sort_values(rows, by, ascending) ==
  LET nn == {i \in 1..Len(rows) : rows[i][by] # NaNum}
      na == SelectSeq(Indices(rows), LAMBDA i : rows[i][by] = NaNum)
  IN {Take(rows, p \o na) : p \in Orderings(rows, by, ascending, nn)}

\* ------------------------------------------------- poc/app.py: loaders
\* a loader that writes the sentinel where load_smr writes NaN
replace_missing_sentinel(v) ==
  IF v \in {<<>>, <<"n", "a", "n">>}
  THEN <<"(", "u", "n", "k", "n", "o", "w", "n", ")">> ELSE v

\* df[c].replace({"": np.nan, "nan": np.nan}) on l1..l4
replace_missing(v) == IF v \in {<<>>, <<"n", "a", "n">>} THEN NaN ELSE v

str_col(c) == strip(astype_str(read_csv_cell(c)))

\* a loader that fills an unparseable number with 0
num_col_fillna(c) ==
  IF to_numeric(read_csv_cell(c)) = NaNum THEN <<0>> ELSE to_numeric(read_csv_cell(c))

\* pd.to_numeric(df[c], errors="coerce")
num_col(c) == to_numeric(read_csv_cell(c))

\* a filter that keeps every row whose is_first is not 0
is_first_filter_nonzero(rows) == SelectSeq(rows, LAMBDA r : r.is_first # <<0>>)

\* df = df[df["is_first"] == 1]   (1 is <<10>> in tenths)
is_first_filter(rows) == SelectSeq(rows, LAMBDA r : r.is_first = <<10>>)

load_smr(tbl, hasIsFirst) ==
  LET df == [i \in 1..Len(tbl) |->
               [drug |-> str_col(tbl[i].drug),
                agegroup |-> str_col(tbl[i].agegroup),
                l |-> [k \in 1..4 |-> str_col(tbl[i].l[k])],
                cui |-> str_col(tbl[i].cui),
                prescriptions |-> num_col(tbl[i].prescriptions),
                pubs |-> num_col(tbl[i].pubs),
                is_first |-> IF hasIsFirst THEN num_col(tbl[i].is_first)
                             ELSE NaNum]]
      kept == IF hasIsFirst THEN is_first_filter(df) ELSE df
  IN [i \in 1..Len(kept) |->
        [kept[i] EXCEPT !.l = [k \in 1..4 |-> replace_missing(@[k])]]]

\* ror, ic and ebgm are parsed like prr and only shown; the model keeps prr.
load_prr(tbl, hasPrr) ==
  [i \in 1..Len(tbl) |->
     [drug |-> str_col(tbl[i].drug),
      cui |-> str_col(tbl[i].cui),
      agegroup |-> str_col(tbl[i].agegroup),
      pt |-> str_col(tbl[i].pt),
      prr |-> IF hasPrr THEN num_col(tbl[i].prr) ELSE NaNum]]

\* ------------------------------------------------ poc/app.py: the run
All == <<"A", "l", "l">>
Total == <<"T", "o", "t", "a", "l">>
NonePick == <<"(", "N", "o", "n", "e", ")">>
NoPubs ==
  <<"N", "o", " ", "P", "u", "b", "s", " ", "i", "n", " ",
    "M", "P", "R", "I", "N", "T">>

age_order ==
  <<Total, <<"0", "-", "2">>, <<"3", "-", "1", "0">>, <<"1", "1", "-", "1", "7">>>>

\* age_available: the ages of age_order the data holds, else age_order
age_available(smr) ==
  LET have == SelectSeq(age_order,
                        LAMBDA a : \E i \in 1..Len(smr) : smr[i].agegroup = a)
  IN IF have # <<>> THEN have ELSE age_order

\* the column lk of a frame
level_col(rows, k) == [i \in 1..Len(rows) |-> rows[i].l[k]]

\* opts(series): "All", then the sorted distinct non-null non-empty values
opts(series) ==
  <<All>> \o sorted({x \in Range(series) : x # NaN /\ strip(x) # <<>>})

\* a filter that compares with the choice even when it is "All"
level_filter_literal(rows, k, choice) ==
  SelectSeq(rows, LAMBDA r : r.l[k] = choice)

\* smr_lk = prev if choice == "All" else prev[prev[lk] == choice]
level_filter(rows, k, choice) ==
  IF choice = All THEN rows ELSE SelectSeq(rows, LAMBDA r : r.l[k] = choice)

\* which frame object a name is bound to: "smr" is the loaded frame itself,
\* "copy" a frame made in this pass. smr_lk = prev if choice == "All" else
\* prev[prev[lk] == choice]: "All" rebinds the same object, boolean indexing
\* makes a new one
level_ref(prev, choice) == IF choice = All THEN prev ELSE "copy"

\* lines 163-173: the object smr_filtered is bound to
smr_filtered_ref(sel) ==
  level_ref(level_ref(level_ref(level_ref("smr", sel[1]), sel[2]), sel[3]), sel[4])

\* a frame df bound to smr_filtered itself
frame_ref_shared(ref, age_choice, search_pick) == ref

\* lines 191-194: df = smr_filtered.copy(), then df = df[...] : the object
\* df is bound to is always a frame made in this pass
frame_ref(ref, age_choice, search_pick) == "copy"

drug_options(rows) == sorted({rows[i].drug : i \in 1..Len(rows)})

\* df = smr_filtered.copy(); df = df[df["agegroup"] == age_choice];
\* if search_pick: df = df[df["drug"].isin(search_pick)]
row_filter(rows, age_choice, search_pick) ==
  LET byAge == SelectSeq(rows, LAMBDA r : r.agegroup = age_choice)
  IN IF search_pick # {}
     THEN SelectSeq(byAge, LAMBDA r : r.drug \in search_pick)
     ELSE byAge

\* int(round(v)) of a value in tenths: Python rounds half to even
round_int(t) ==
  LET q == t \div 10
      r == t % 10
  IN IF r < 5 THEN q
     ELSE IF r > 5 THEN q + 1
     ELSE IF q % 2 = 0 THEN q ELSE q + 1

RECURSIVE nat_str(_)
nat_str(n) ==
  IF n < 10 THEN <<Chars[Ord("0") + n]>>
  ELSE nat_str(n \div 10) \o <<Chars[Ord("0") + (n % 10)]>>

pad3(m) == <<Chars[Ord("0") + (m \div 100)]>> \o
           <<Chars[Ord("0") + ((m \div 10) % 10)]>> \o
           <<Chars[Ord("0") + (m % 10)]>>

RECURSIVE group_str(_)
group_str(n) ==
  IF n < 1000 THEN nat_str(n)
  ELSE group_str(n \div 1000) \o <<",">> \o pad3(n % 1000)

\* f"{n:,}"
int_str(n) == IF n < 0 THEN <<"-">> \o group_str(-n) ELSE group_str(n)

pubs_display(val) ==
  IF val = NaNum \/ val[1] = 0 THEN NoPubs ELSE int_str(round_int(val[1]))

\* the display columns added to df (lines 197-210)
with_display(rows) ==
  [i \in 1..Len(rows) |->
     [drug |-> rows[i].drug, agegroup |-> rows[i].agegroup, l |-> rows[i].l,
      cui |-> rows[i].cui, prescriptions |-> rows[i].prescriptions,
      pubs |-> rows[i].pubs, is_first |-> rows[i].is_first,
      Prescriptions |-> rows[i].prescriptions,
      Publications_num |-> rows[i].pubs,
      Publications |-> pubs_display(rows[i].pubs)]]

\* results_df = df[show_cols]
results_df(rows, selected_optional) ==
  [i \in 1..Len(rows) |->
     [drug |-> rows[i].drug, agegroup |-> rows[i].agegroup,
      Prescriptions |-> rows[i].Prescriptions,
      Publications |-> rows[i].Publications,
      atc |-> [k \in selected_optional |-> rows[i].l[k]]]]

\* cui_val: the first cui of the drug's rows in smr, after dropna(); None
\* when there is none or it is the empty string ("if cui_val")
cui_lookup(smr, selected_drug) ==
  LET c == SelectSeq(smr, LAMBDA r : r.drug = selected_drug /\ r.cui # NaN)
  IN IF c = <<>> THEN NaN
     ELSE IF strip(astype_str(c[1].cui)) = <<>> THEN NaN
     ELSE strip(astype_str(c[1].cui))

\* ade_df: by cui when cui_val is truthy, else by case-folded drug name;
\* and by age group unless the age choice is "Total"
ade_join(prr, cui_val, selected_drug, age_choice) ==
  SelectSeq(prr, LAMBDA r :
    /\ IF cui_val # NaN THEN r.cui = cui_val
       ELSE casefold(r.drug) = casefold(selected_drug)
    /\ age_choice = Total \/ r.agegroup = age_choice)

\* --------------------------------------------- poc/app.py: the inputs
SmrRow(d, a, p, c, rx, pb, f) ==
  [drug |-> d, agegroup |-> a, l |-> p, cui |-> c,
   prescriptions |-> rx, pubs |-> pb, is_first |-> f]

PrrRow(d, c, a, t, v) == [drug |-> d, cui |-> c, agegroup |-> a, pt |-> t, prr |-> v]

Age02 == <<"0", "-", "2">>
DrugAb == <<"A", "b">>
DrugCd == <<"C", "d">>
DrugEf == <<"E", "f">>
CuiC1 == <<"C", "1">>
CuiC2 == <<"C", "2">>

PathN6 == <<<<"N">>, <<"N", "6">>, <<"N", "6", "A">>, <<"N", "6", "A", "B">>>>
PathN5 == <<<<"N">>, <<"N", "5">>, <<"N", "5", "A">>, <<>>>>
PathJ5 == <<<<"J">>, <<"J", "5">>, <<>>, <<>>>>
PathWs == <<<<" ", "N">>, <<"N", "6", " ">>, <<"N", "6", "B">>, <<"n", "a", "n">>>>
PathNone == <<<<>>, <<" ">>, <<"N", "A">>, <<>>>>

\* rows that differ in the classification path, the drug and the age group
HierRows ==
  {SmrRow(DrugAb, Total, PathN6, CuiC1, <<"5">>, <<"3">>, <<"1">>),
   SmrRow(DrugAb, Age02, PathN6, CuiC1, <<"2">>, <<>>, <<"1">>),
   SmrRow(DrugCd, Total, PathN5, <<>>, <<"1", "2">>, <<"0">>, <<"1">>),
   SmrRow(DrugCd, Total, PathJ5, <<>>, <<"7">>, <<"7">>, <<"1">>),
   SmrRow(<<"A", "b", " ">>, Age02, PathWs, CuiC1, <<"5">>, <<"3">>, <<"1">>),
   SmrRow(DrugAb, Total, PathNone, CuiC1, <<"5">>, <<"3">>, <<"1">>)}

\* rows that differ in is_first and in the metrics
FirstTokens ==
  {<<"1">>, <<"0">>, <<>>, <<"x">>, <<"1", ".", "0">>, <<" ", "1", " ">>, <<"2">>}

MetricTokens ==
  {<<<<>>, <<"x">>>>, <<<<"1", "2", "5", "0">>, <<"2", ".", "5">>>>}

LoadRows ==
  {SmrRow(DrugAb, Total, PathNone, CuiC1, <<"5">>, <<"3">>, f) : f \in FirstTokens}
  \cup {SmrRow(DrugAb, Total, PathN5, CuiC1, m[1], m[2], <<"1">>) : m \in MetricTokens}

\* a table whose drugs differ in how their cui is given
AdeSmr ==
  <<SmrRow(DrugAb, Total, PathNone, CuiC1, <<"5">>, <<"3">>, <<"1">>),
    SmrRow(DrugCd, Total, PathNone, <<>>, <<"7">>, <<"1">>, <<"1">>),
    SmrRow(DrugEf, Age02, PathNone, <<" ">>, <<"2">>, <<"2">>, <<"1">>)>>

PrrRows ==
  {PrrRow(<<"A", "B">>, CuiC1, Age02, <<"r">>, <<"3", ".", "2">>),
   PrrRow(<<"A", "B">>, CuiC1, Age02, <<"s">>, <<>>),
   PrrRow(<<"A", "B">>, CuiC1, Total, <<"t">>, <<"1", ".", "1">>),
   PrrRow(<<"c", "d">>, CuiC2, Total, <<"u">>, <<"2">>),
   PrrRow(<<"E", "F">>, <<>>, Age02, <<"v">>, <<"x">>)}

Tables(U, lo, hi) == UNION {[1..k -> U] : k \in lo..hi}

DefaultPrr == <<PrrRow(<<"A", "B">>, CuiC1, Age02, <<"r">>, <<"3", ".", "2">>)>>

PocInputs ==
  {[smr |-> t, hasIsFirst |-> f, prr |-> DefaultPrr, hasPrr |-> TRUE] :
     t \in Tables(LoadRows, 0, MaxSmrRows), f \in BOOLEAN}
  \cup {[smr |-> t, hasIsFirst |-> TRUE, prr |-> DefaultPrr, hasPrr |-> TRUE] :
     t \in Tables(HierRows, 1, MaxSmrRows)}
  \cup {[smr |-> AdeSmr, hasIsFirst |-> FALSE, prr |-> q, hasPrr |-> TRUE] :
     q \in Tables(PrrRows, 0, MaxPrrRows)}
  \cup {[smr |-> AdeSmr, hasIsFirst |-> FALSE, prr |-> q, hasPrr |-> FALSE] :
     q \in Tables(PrrRows, 1, 2)}

\* ------------------------------------------------- app_v1.py: loader
Unknown == <<"(", "u", "n", "k", "n", "o", "w", "n", ")">>
AllV1 == <<"(", "a", "l", "l", ")">>
Sep == <<" ", "~", " ">>

\* the values of a row in the columns of a group key, in column order
pubs_key(r) ==
  <<r.cui, r.rxnorm_name, r.rxnorm_tty,
    r.L[1].code, r.L[1].name, r.L[2].code, r.L[2].name,
    r.L[3].code, r.L[3].name, r.L[4].code, r.L[4].name>>

rx_key(r) ==
  <<r.cui, r.L[1].code, r.L[1].name, r.L[2].code, r.L[2].name,
    r.L[3].code, r.L[3].name, r.L[4].code, r.L[4].name>>

agg_key(r) ==
  <<r.cui, r.drug_name,
    r.L[1].code, r.L[1].name, r.L[2].code, r.L[2].name,
    r.L[3].code, r.L[3].name, r.L[4].code, r.L[4].name>>

\* tuples of strings compare column by column
RECURSIVE KeyLess(_, _)
KeyLess(a, b) ==
  IF a = <<>> \/ b = <<>> THEN FALSE
  ELSE IF Head(a) = Head(b) THEN KeyLess(Tail(a), Tail(b))
  ELSE StrLess(Head(a), Head(b))

RECURSIVE SortKeys(_)
SortKeys(S) ==
  IF S = {} THEN <<>>
  ELSE LET m == CHOOSE x \in S : \A y \in S \ {x} : KeyLess(x, y)
       IN <<m>> \o SortKeys(S \ {m})

\* groupby(...): the distinct keys in sorted order; a row with NaN in a key
\* column belongs to no group (dropna=True)
group_keys(keys) ==
  SortKeys({k \in Range(keys) : \A c \in 1..Len(k) : k[c] # NaN})

\* Series.sum(): NaN counts as nothing
RECURSIVE SumCells(_)
SumCells(cells) ==
  IF cells = <<>> THEN 0
  ELSE (IF Head(cells) = NaNum THEN 0 ELSE Head(cells)[1]) + SumCells(Tail(cells))

GroupRows(rows, keys, k) == SelectSeq(Indices(rows), LAMBDA i : keys[i] = k)

ReadPubs(tbl) ==
  [i \in 1..Len(tbl) |->
     [cui |-> read_csv_cell(tbl[i].cui),
      rxnorm_tty |-> read_csv_cell(tbl[i].rxnorm_tty),
      rxnorm_name |-> read_csv_cell(tbl[i].rxnorm_name),
      L |-> [k \in 1..4 |-> [code |-> read_csv_cell(tbl[i].L[k].code),
                             name |-> read_csv_cell(tbl[i].L[k].name)]],
      unique_pub_count |-> tbl[i].unique_pub_count]]

ReadRx(tbl) ==
  [i \in 1..Len(tbl) |->
     [cui |-> read_csv_cell(tbl[i].cui),
      L |-> [k \in 1..4 |-> [code |-> read_csv_cell(tbl[i].L[k].code),
                             name |-> read_csv_cell(tbl[i].L[k].name)]],
      vol |-> tbl[i].vol]]

\* lines 46-47: rows with a real drug name
real_names(pubs) ==
  SelectSeq(pubs, LAMBDA r : r.rxnorm_name # NaN /\ strip(r.rxnorm_name) # <<>>)

\* lines 61-66: one row per key with the counts summed, or (no count
\* column) every row with a count of 0
pubs_agg(pubs, hasPubCount) ==
  IF hasPubCount
  THEN LET keys == [i \in 1..Len(pubs) |-> pubs_key(pubs[i])]
           gk == group_keys(keys)
       IN [g \in 1..Len(gk) |->
             LET idx == GroupRows(pubs, keys, gk[g])
             IN [pubs[idx[1]] EXCEPT !.unique_pub_count =
                   <<SumCells([j \in 1..Len(idx) |-> pubs[idx[j]].unique_pub_count])>>]]
  ELSE [i \in 1..Len(pubs) |-> [pubs[i] EXCEPT !.unique_pub_count = <<0>>]]

RECURSIVE Flatten(_)
Flatten(ss) == IF ss = <<>> THEN <<>> ELSE Head(ss) \o Flatten(Tail(ss))

\* lines 86-87: pubs_agg.merge(rx, on=rx_keys, how="left"), then
\* fillna(0).astype(int) of the volume; NaN keys match NaN keys
merge_left(left, rx) ==
  Flatten([i \in 1..Len(left) |->
    LET m == SelectSeq(rx, LAMBDA x : rx_key(x) = rx_key(left[i]))
    IN IF m = <<>> THEN <<[row |-> left[i], vol |-> <<0>>]>>
       ELSE [j \in 1..Len(m) |->
               [row |-> left[i],
                vol |-> IF m[j].vol = NaNum THEN <<0>> ELSE m[j].vol]]])

\* lines 97-99: fillna("(unknown)")
fillna_unknown(v) == IF v = NaN THEN Unknown ELSE v

load_data(pubsTbl, hasPubCount, rxTbl) ==
  LET pubs == real_names(ReadPubs(pubsTbl))
      agg == pubs_agg(pubs, hasPubCount)
      mrg == merge_left(agg, ReadRx(rxTbl))
  IN [i \in 1..Len(mrg) |->
        [cui |-> mrg[i].row.cui,
         rxnorm_tty |-> mrg[i].row.rxnorm_tty,
         drug_name |-> mrg[i].row.rxnorm_name,
         L |-> [k \in 1..4 |-> [code |-> fillna_unknown(mrg[i].row.L[k].code),
                                name |-> fillna_unknown(mrg[i].row.L[k].name)]],
         pub_count |-> mrg[i].row.unique_pub_count,
         rx_volume |-> mrg[i].vol]]

\* ------------------------------------------------ app_v1.py: the run
\* optlist: "(all)", then the sorted distinct labels "code ~ name" of df
optlist(df, k) ==
  <<AllV1>> \o sorted({df[i].L[k].code \o Sep \o df[i].L[k].name :
                         i \in {j \in 1..Len(df) :
                                  df[j].L[k].code # NaN /\ df[j].L[k].name # NaN}})

\* code_from_label: None (here NaN) for "(all)", else the text before the
\* first " ~ ", stripped
code_from_label(label) ==
  IF label = <<>> \/ label = AllV1 THEN NaN
  ELSE LET at == {i \in 1..Len(label) - 2 : SubSeq(label, i, i + 2) = Sep}
       IN IF at = {} THEN strip(label)
          ELSE strip(SubSeq(label, 1, (CHOOSE i \in at : \A j \in at : i <= j) - 1))

\* lines 156-159: filtered = filtered[filtered[level] == code], level by level
RECURSIVE filter_levels(_, _, _)
filter_levels(rows, sels, k) ==
  IF k > Len(sels) THEN rows
  ELSE LET code == code_from_label(sels[k])
           kept == IF code # NaN /\ code # <<>>
                   THEN SelectSeq(rows, LAMBDA r : r.L[k].code = code)
                   ELSE rows
       IN filter_levels(kept, sels, k + 1)

\* .head(n)
head(rows, n) == SubSeq(rows, 1, IF n < Len(rows) THEN n ELSE Len(rows))

\* lines 165-167: groupby(group_cols, as_index=False).agg(sums)
agg_groups(rows) ==
  LET keys == [i \in 1..Len(rows) |-> agg_key(rows[i])]
      gk == group_keys(keys)
  IN [g \in 1..Len(gk) |->
        LET idx == GroupRows(rows, keys, gk[g])
        IN [cui |-> rows[idx[1]].cui, drug_name |-> rows[idx[1]].drug_name,
            L |-> rows[idx[1]].L,
            pub_count |-> <<SumCells([j \in 1..Len(idx) |-> rows[idx[j]].pub_count])>>,
            rx_volume |-> <<SumCells([j \in 1..Len(idx) |-> rows[idx[j]].rx_volume])>>]]

\* lines 165-169: the ranked table (one of them when metric values tie)
agg(rows, metric_col, top_n) ==
  {head(srt, top_n) : srt \in sort_values(agg_groups(rows), metric_col, FALSE)}

\* ------------------------------------------------ app_v1.py: the inputs
\* st.sidebar.number_input("Show top N drugs", min_value=10, ...)
TopNMin == 10

Lvl(c, n) == [code |-> c, name |-> n]

PubRow(c, n, p, k) ==
  [cui |-> c, rxnorm_tty |-> <<"I", "N">>, rxnorm_name |-> n, L |-> p,
   unique_pub_count |-> k]

RxRow(c, p, v) == [cui |-> c, L |-> p, vol |-> v]

VPathN6 ==
  <<Lvl(<<"N">>, <<"n", "v">>), Lvl(<<"N", "6">>, <<"p", "s">>),
    Lvl(<<"N", "6", "A">>, <<"a", "d">>), Lvl(<<"N", "6", "A", "B">>, <<"s", "s">>)>>

VPathJ5 ==
  <<Lvl(<<"J">>, <<"a", "n">>), Lvl(<<"J", "5">>, <<"a", "v">>),
    Lvl(<<>>, <<>>), Lvl(<<>>, <<>>)>>

VPathJ5A ==
  <<Lvl(<<"J">>, <<"a", "n">>), Lvl(<<"J", "5">>, <<"a", "v">>),
    Lvl(<<"J", "5", "A">>, <<"d", "a">>), Lvl(<<"J", "5", "A", "B">>, <<"n", "u">>)>>

PubRows ==
  {PubRow(CuiC1, DrugAb, VPathN6, <<5>>),
   PubRow(CuiC1, DrugAb, VPathN6, <<3>>),
   PubRow(CuiC2, DrugCd, VPathJ5A, <<8>>),
   PubRow(CuiC2, DrugCd, VPathJ5, <<1>>),
   PubRow(<<>>, DrugEf, VPathN6, <<4>>),
   PubRow(CuiC1, <<" ">>, VPathN6, <<2>>),
   PubRow(CuiC2, DrugCd, VPathN6, <<>>)}

RxRows ==
  {RxRow(CuiC1, VPathN6, <<10>>),
   RxRow(CuiC1, VPathN6, <<2>>),
   RxRow(CuiC2, VPathJ5A, <<>>),
   RxRow(CuiC2, VPathN6, <<7>>)}

DefaultRx == <<RxRow(CuiC1, VPathN6, <<10>>), RxRow(CuiC2, VPathJ5A, <<>>)>>

DefaultPubs ==
  <<PubRow(CuiC1, DrugAb, VPathN6, <<5>>), PubRow(CuiC2, DrugCd, VPathN6, <<>>),
    PubRow(CuiC1, DrugAb, VPathN6, <<3>>)>>

\* one more group than the smallest top N, with distinct sums
BigCui(i) == <<"K", Chars[Ord("0") + i]>>

BigPubs ==
  [i \in 1..TopNMin + 1 |->
     PubRow(BigCui(i), DrugAb, VPathN6, <<(7 * i) % (TopNMin + 2)>>)]

BigRx ==
  [i \in 1..TopNMin + 1 |-> RxRow(BigCui(i), VPathN6, <<(5 * i) % (TopNMin + 1)>>)]

V1Inputs ==
  {[pubs |-> t, hasPubCount |-> h, rx |-> DefaultRx] :
     t \in Tables(PubRows, 0, MaxPubRows), h \in BOOLEAN}
  \cup {[pubs |-> DefaultPubs, hasPubCount |-> TRUE, rx |-> x] :
     x \in Tables(RxRows, 0, MaxRxRows)}
  \cup {[pubs |-> BigPubs, hasPubCount |-> TRUE, rx |-> BigRx]}

\* ------------------------------------------------------------- the run
NoCtl ==
  [age |-> NaN, sort_metric |-> "", sort_desc |-> TRUE, search_pick |-> {},
   selected_optional |-> {}, metric |-> "", top_n |-> 0]

NoAde == [cui_val |-> NaN, ade_df |-> <<>>, ade_view |-> <<>>,
          view_defined |-> FALSE, info |-> FALSE]

\* the widgets and derived frames of a pass before the script has set them
Fresh ==
  /\ levelOpts = <<>>
  /\ levelSel = <<>>
  /\ ctl = NoCtl
  /\ hier = <<>>
  /\ filtered = <<>>
  /\ result = <<>>
  /\ pick = NaN
  /\ ade = NoAde
  /\ err = ""

OptionalChoices == {{}, {1, 2, 3, 4}}

Init ==
  /\ \/ app = "poc" /\ raw \in PocInputs
     \/ app = "v1" /\ raw \in V1Inputs
  /\ pc = "start"
  /\ loaded = <<>>
  /\ Fresh

\* lines 136-139: load both tables (cached for the session); st.stop()
\* when either is empty
LoadPoc ==
  /\ app = "poc" /\ pc = "start"
  /\ LET smr == load_smr(raw.smr, raw.hasIsFirst)
         prr == load_prr(raw.prr, raw.hasPrr)
     IN /\ loaded' = [smr |-> smr, prr |-> prr]
        /\ pc' = IF smr = <<>> \/ prr = <<>> THEN "stopped" ELSE "sidebar"
  /\ UNCHANGED <<app, raw, levelOpts, levelSel, ctl, hier, filtered, result,
                 pick, ade, err>>

\* lines 150-152: the age radio
Sidebar ==
  /\ app = "poc" /\ pc = "sidebar"
  /\ \E a \in Range(age_available(loaded.smr)) : ctl' = [ctl EXCEPT !.age = a]
  /\ pc' = "cascade"
  /\ UNCHANGED <<app, raw, loaded, levelOpts, levelSel, hier, filtered, result,
                 pick, ade, err>>

\* lines 163-173: the four cascading select boxes
Cascade ==
  /\ app = "poc" /\ pc = "cascade"
  /\ LET smr == loaded.smr
         o1 == opts(level_col(smr, 1))
     IN \E c1 \in Range(o1) :
          LET smr_l1 == level_filter(smr, 1, c1)
              o2 == opts(level_col(smr_l1, 2))
          IN \E c2 \in Range(o2) :
               LET smr_l2 == level_filter(smr_l1, 2, c2)
                   o3 == opts(level_col(smr_l2, 3))
               IN \E c3 \in Range(o3) :
                    LET smr_l3 == level_filter(smr_l2, 3, c3)
                        o4 == opts(level_col(smr_l3, 4))
                    IN \E c4 \in Range(o4) :
                         /\ levelOpts' = <<o1, o2, o3, o4>>
                         /\ levelSel' = <<c1, c2, c3, c4>>
                         /\ hier' = level_filter(smr_l3, 4, c4)
  /\ pc' = "drugpick"
  /\ UNCHANGED <<app, raw, loaded, ctl, filtered, result, pick, ade, err>>

\* lines 179-186: the drug multiselect and the optional ATC columns
DrugPick ==
  /\ app = "poc" /\ pc = "drugpick"
  /\ \E sp \in SUBSET Range(drug_options(hier)), so \in OptionalChoices :
       ctl' = [ctl EXCEPT !.search_pick = sp, !.selected_optional = so]
  /\ pc' = "apply"
  /\ UNCHANGED <<app, raw, loaded, levelOpts, levelSel, hier, filtered, result,
                 pick, ade, err>>

\* lines 155-156 and 191-238: age and drug filter, display columns, sort,
\* results table
ApplyFilters ==
  /\ app = "poc" /\ pc = "apply"
  /\ \E m \in {"Prescriptions", "Publications"}, d \in BOOLEAN :
       LET df == row_filter(hier, ctl.age, ctl.search_pick)
           by == IF m = "Publications" THEN "Publications_num" ELSE "Prescriptions"
       IN /\ ctl' = [ctl EXCEPT !.sort_metric = m, !.sort_desc = d]
          /\ filtered' = df
          /\ \E srt \in sort_values(with_display(df), by, ~d) :
               result' = [df |-> srt,
                          results_df |-> results_df(srt, ctl.selected_optional)]
          \* lines 197-210 assign the display columns into the object df is
          \* bound to
          /\ loaded' =
               IF frame_ref(smr_filtered_ref(levelSel), ctl.age, ctl.search_pick)
                    = "smr"
               THEN [loaded EXCEPT !.smr = with_display(@)]
               ELSE loaded
  /\ pc' = "adepick"
  /\ UNCHANGED <<app, raw, levelOpts, levelSel, hier, pick, ade, err>>

\* lines 247-249: the drug select box of the drill-down
AdePick ==
  /\ app = "poc" /\ pc = "adepick"
  /\ \E p \in {NonePick} \cup {result.results_df[i].drug :
                                 i \in 1..Len(result.results_df)} :
       /\ pick' = p
       /\ pc' = IF p = NonePick THEN "done" ELSE "adejoin"
  /\ UNCHANGED <<app, raw, loaded, levelOpts, levelSel, ctl, hier, filtered,
                 result, ade, err>>

\* lines 251-315: the join, st.info when it is empty, else sort and show
AdeJoin ==
  /\ app = "poc" /\ pc = "adejoin"
  /\ LET cui_val == cui_lookup(loaded.smr, pick)
         ade_df == ade_join(loaded.prr, cui_val, pick, ctl.age)
     IN IF ade_df = <<>>
        THEN ade' = [cui_val |-> cui_val, ade_df |-> ade_df, ade_view |-> <<>>,
                     view_defined |-> FALSE, info |-> TRUE]
        ELSE \E srt \in (IF raw.hasPrr THEN sort_values(ade_df, "prr", FALSE)
                         ELSE {ade_df}) :
               ade' = [cui_val |-> cui_val, ade_df |-> srt, ade_view |-> srt,
                       view_defined |-> TRUE, info |-> FALSE]
  /\ pc' = "adedownload"
  /\ UNCHANGED <<app, raw, loaded, levelOpts, levelSel, ctl, hier, filtered,
                 result, pick, err>>

\* lines 319-325: ade_view.to_csv(); ade_view is bound only in the else
\* branch above, so the name is unbound after st.info
AdeDownload ==
  /\ app = "poc" /\ pc = "adedownload"
  /\ IF ade.view_defined
     THEN pc' = "done" /\ err' = err
     ELSE pc' = "error" /\ err' = "NameError"
  /\ UNCHANGED <<app, raw, loaded, levelOpts, levelSel, ctl, hier, filtered,
                 result, pick, ade>>

\* lines 103: df = load_data(PUBS_FN, RX_FN), cached
LoadV1 ==
  /\ app = "v1" /\ pc = "start"
  /\ loaded' = [df |-> load_data(raw.pubs, raw.hasPubCount, raw.rx)]
  /\ pc' = "sidebar"
  /\ UNCHANGED <<app, raw, levelOpts, levelSel, ctl, hier, filtered, result,
                 pick, ade, err>>

\* lines 122-143: the four select boxes, each over the whole df, the rank
\* metric and top N
SidebarV1 ==
  /\ app = "v1" /\ pc = "sidebar"
  /\ LET o == [k \in 1..4 |-> optlist(loaded.df, k)]
     IN /\ levelOpts' = o
        /\ \E l1 \in Range(o[1]), l2 \in Range(o[2]),
              l3 \in Range(o[3]), l4 \in Range(o[4]) :
             levelSel' = <<l1, l2, l3, l4>>
  /\ \E m \in {"Publications", "Rx volume"},
        n \in TopNMin..TopNMin + MaxTopExtra :
       ctl' = [ctl EXCEPT !.metric = m, !.top_n = n]
  /\ pc' = "filter"
  /\ UNCHANGED <<app, raw, loaded, hier, filtered, result, pick, ade, err>>

\* lines 148-159
FilterV1 ==
  /\ app = "v1" /\ pc = "filter"
  /\ filtered' = filter_levels(loaded.df, levelSel, 1)
  /\ pc' = "aggregate"
  /\ UNCHANGED <<app, raw, loaded, levelOpts, levelSel, ctl, hier, result,
                 pick, ade, err>>

\* lines 164-183: aggregate, rank, truncate, show and offer the CSV
AggregateV1 ==
  /\ app = "v1" /\ pc = "aggregate"
  /\ LET metric_col == IF ctl.metric = "Publications" THEN "pub_count"
                       ELSE "rx_volume"
     IN \E t \in agg(filtered, metric_col, ctl.top_n) : result' = t
  /\ pc' = "done"
  /\ UNCHANGED <<app, raw, loaded, levelOpts, levelSel, ctl, hier, filtered,
                 pick, ade, err>>

\* a widget interaction reruns the script from the top in a fresh
\* namespace; the loaded tables come from the cache
Rerun ==
  /\ pc \in {"done", "error"}
  /\ pc' = "sidebar"
  /\ levelOpts' = <<>>
  /\ levelSel' = <<>>
  /\ ctl' = NoCtl
  /\ hier' = <<>>
  /\ filtered' = <<>>
  /\ result' = <<>>
  /\ pick' = NaN
  /\ ade' = NoAde
  /\ err' = ""
  /\ UNCHANGED <<app, raw, loaded>>

Next ==
  \/ LoadPoc
  \/ Sidebar
  \/ Cascade
  \/ DrugPick
  \/ ApplyFilters
  \/ AdePick
  \/ AdeJoin
  \/ AdeDownload
  \/ LoadV1
  \/ SidebarV1
  \/ FilterV1
  \/ AggregateV1
  \/ Rerun

Spec == Init /\ [][Next]_vars

\* ============================================================== claims
Loaded == pc # "start"

\* poc/app.py: the raw is_first cells that read as the number 1
OneTokens == {<<"1">>, <<"1", ".", "0">>, <<" ", "1", " ">>}

\* poc/app.py: the positions of raw.smr that the loaded smr holds, in order
KeptIdx ==
  IF raw.hasIsFirst
  THEN SelectSeq(Indices(raw.smr), LAMBDA i : raw.smr[i].is_first \in OneTokens)
  ELSE Indices(raw.smr)

\* ------------------------------------------------------------------ C1
\* poc/app.py: the rows that agree with the selections made above level k
MatchingAbove(rows, sel, k) ==
  SelectSeq(rows, LAMBDA r : \A j \in 1..k - 1 : sel[j] = All \/ r.l[j] = sel[j])

\* poc/app.py offers at level k "All" and then, ascending, exactly the
\* distinct non-null non-empty values of the rows that agree with the
\* selections above k
C1_CascadePoc ==
  (app = "poc" /\ levelSel # <<>>) =>
    \A k \in 1..4 :
      LET m == MatchingAbove(loaded.smr, levelSel, k)
          vals == {m[i].l[k] : i \in 1..Len(m)} \ {NaN, <<>>}
      IN /\ Head(levelOpts[k]) = All
         /\ Range(Tail(levelOpts[k])) = vals
         /\ Len(levelOpts[k]) = 1 + Cardinality(vals)
         /\ \A i \in 2..Len(levelOpts[k]) - 1 :
              StrLess(levelOpts[k][i], levelOpts[k][i + 1])

\* app_v1.py: the same of its labels "code ~ name", given the L1 label chosen
C1_CascadeV1 ==
  (app = "v1" /\ levelSel # <<>> /\ levelSel[1] # AllV1) =>
    LET code == code_from_label(levelSel[1])
        m == SelectSeq(loaded.df, LAMBDA r : r.L[1].code = code)
    IN Range(Tail(levelOpts[2])) =
         {m[i].L[2].code \o Sep \o m[i].L[2].name : i \in 1..Len(m)}

\* C1: for every L1 selection other than "All" the values offered for L2 are
\* exactly the distinct non-null non-empty L2 values of the rows under that
\* L1, sorted and prefixed by "All", never a value that occurs only under
\* another L1; and so on for L3 and L4.
C1_CascadingChoices == C1_CascadePoc /\ C1_CascadeV1

\* ------------------------------------------------------------------ C2
\* app_v1.py: the raw publication rows that carry a real drug name
RealPubs ==
  SelectSeq(raw.pubs, LAMBDA r :
    r.rxnorm_name \notin NaStrings /\ strip(r.rxnorm_name) # <<>>)

\* the key of a raw publication row as the loaded row-set spells it
RawKey(r) ==
  <<read_csv_cell(r.cui), r.rxnorm_name,
    [k \in 1..4 |-> [code |-> fillna_unknown(read_csv_cell(r.L[k].code)),
                     name |-> fillna_unknown(read_csv_cell(r.L[k].name))]]>>

DfKey(r) == <<r.cui, r.drug_name, r.L>>

RECURSIVE CountSum(_, _)
CountSum(rows, key) ==
  IF rows = <<>> THEN 0
  ELSE (IF RawKey(Head(rows)) = key /\ Head(rows).unique_pub_count # NaNum
        THEN Head(rows).unique_pub_count[1] ELSE 0) + CountSum(Tail(rows), key)

\* C2: loading collapses the raw rows that share a (drug identity,
\* classification path) key into exactly one row that carries the sum of
\* their publication counts: no two loaded rows share a key and no raw row,
\* one with a missing level or cui included, is left out of the sums.
C2_DuplicatesSummed ==
  (app = "v1" /\ Loaded /\ raw.hasPubCount) =>
    /\ \A i, j \in 1..Len(loaded.df) :
         DfKey(loaded.df[i]) = DfKey(loaded.df[j]) => i = j
    /\ \A n \in 1..Len(RealPubs) :
         \E i \in 1..Len(loaded.df) :
           /\ DfKey(loaded.df[i]) = RawKey(RealPubs[n])
           /\ loaded.df[i].pub_count = <<CountSum(RealPubs, RawKey(RealPubs[n]))>>

\* ------------------------------------------------------------------ C3
\* C3: with an is_first column load_smr keeps exactly the rows whose
\* is_first reads as 1, in order, and drops the others (missing or
\* unparseable ones too) without an error; without the column it keeps
\* every row.
C3_IsFirstRetained ==
  (app = "poc" /\ Loaded) =>
    /\ pc \in {"sidebar", "stopped"} => err = ""
    /\ Len(loaded.smr) = Len(KeptIdx)
    /\ raw.hasIsFirst =>
         Len(loaded.smr) =
           Cardinality({i \in 1..Len(raw.smr) : raw.smr[i].is_first \in OneTokens})
    /\ ~raw.hasIsFirst => Len(loaded.smr) = Len(raw.smr)
    /\ \A j \in 1..Len(loaded.smr) :
         /\ raw.hasIsFirst => loaded.smr[j].is_first = <<10>>
         /\ loaded.smr[j].drug = strip(raw.smr[KeptIdx[j]].drug)
         /\ loaded.smr[j].agegroup = strip(raw.smr[KeptIdx[j]].agegroup)

\* C3 happens: a table with an is_first column loses a row whose is_first
\* is missing or unparseable and keeps a row whose is_first is 1
C3_Witness ==
  /\ app = "poc" /\ pc = "sidebar" /\ raw.hasIsFirst
  /\ Len(raw.smr) = 2 /\ Len(loaded.smr) = 1
  /\ \E i \in 1..2 : raw.smr[i].is_first \in {<<>>, <<"x">>}

\* ------------------------------------------------------------------ C4
\* the cui the main dataset gives for the picked drug (NaN: none)
GivenCui ==
  LET rows == SelectSeq(raw.smr, LAMBDA r : strip(r.drug) = pick)
  IN IF rows = <<>> \/ rows[1].cui \in NaStrings \/ strip(rows[1].cui) = <<>>
     THEN NaN ELSE strip(rows[1].cui)

\* the loaded adverse-event records the claim expects for the picked drug
ExpectedAde ==
  SelectSeq(loaded.prr, LAMBDA r :
    /\ IF GivenCui # NaN THEN r.cui = GivenCui
       ELSE casefold(r.drug) = casefold(pick)
    /\ ctl.age = Total \/ r.agegroup = ctl.age)

\* C4: the drill-down returns exactly the records whose cui is the drug's
\* cui when the main dataset holds one, exactly the records whose drug name
\* equals the drug's name case-insensitively when the cui is absent, and only
\* the records of the age stratum when that is not "Total".
C4_AdeJoin ==
  (app = "poc" /\ pc = "adedownload" /\ ~raw.hasIsFirst) =>
    /\ Range(ade.ade_df) = Range(ExpectedAde)
    /\ Len(ade.ade_df) = Len(ExpectedAde)

\* ------------------------------------------------------------------ C5
\* C5: a join that yields no record is reported ("No ADE data") and the run
\* reaches no error state in any later step, the ADE download included.
C5_EmptyJoinNoError ==
  (app = "poc" /\ ade.info /\ ~raw.hasIsFirst /\ ExpectedAde = <<>>) =>
    (pc # "error" /\ err = "")

\* ------------------------------------------------------------------ C6
\* app_v1.py: the group keys of the filtered rows
AllKeys == {agg_key(filtered[i]) : i \in 1..Len(filtered)}

\* the keys with no missing component
CompleteKeys == {k \in AllKeys : \A c \in 1..Len(k) : k[c] # NaN}

RECURSIVE MetricSum(_, _, _)
MetricSum(rows, key, col) ==
  IF rows = <<>> THEN 0
  ELSE (IF agg_key(Head(rows)) = key THEN Head(rows)[col][1] ELSE 0)
       + MetricSum(Tail(rows), key, col)

MetricCol == IF ctl.metric = "Publications" THEN "pub_count" ELSE "rx_volume"

\* the ranked table holds min(top_n, number of groups) of the groups K, each
\* once and with its sums, and no group left out has a larger metric
RankedOver(K) ==
  LET shown == {agg_key(result[i]) : i \in 1..Len(result)}
  IN /\ Len(result) = IF ctl.top_n < Cardinality(K) THEN ctl.top_n
                      ELSE Cardinality(K)
     /\ Cardinality(shown) = Len(result)
     /\ shown \subseteq K
     /\ \A i \in 1..Len(result) :
          /\ result[i].pub_count =
               <<MetricSum(filtered, agg_key(result[i]), "pub_count")>>
          /\ result[i].rx_volume =
               <<MetricSum(filtered, agg_key(result[i]), "rx_volume")>>
          /\ \A k \in K \ shown :
               result[i][MetricCol][1] >= MetricSum(filtered, k, MetricCol)

\* C6: the ranked table holds exactly min(top_n, number of groups) groups of
\* the filtered rows, each with the sums of pub_count and rx_volume over its
\* rows, and no group left out has a larger value of the chosen metric than
\* a group that is returned.
C6_AggregateAndRank == (app = "v1" /\ pc = "done") => RankedOver(AllKeys)

\* C6 for the groups whose key has no missing component (the only groups
\* pandas forms): these are ranked and truncated as C6 says.
C6_CompleteKeysRanked == (app = "v1" /\ pc = "done") => RankedOver(CompleteKeys)

\* C6_CompleteKeysRanked happens: more groups than top_n, one is left out
C6_CompleteKeysWitness ==
  /\ app = "v1" /\ pc = "done"
  /\ Cardinality(CompleteKeys) > ctl.top_n
  /\ Len(result) = ctl.top_n
  /\ \E i \in 1..Len(result) : result[i].pub_count # result[1].pub_count

\* ------------------------------------------------------------------ C7
AllLevels ==
  \/ app = "poc" /\ levelSel = <<All, All, All, All>>
  \/ app = "v1" /\ levelSel = <<AllV1, AllV1, AllV1, AllV1>>

Filtered ==
  \/ app = "poc" /\ pc \in {"adepick", "adejoin", "adedownload", "done", "error"}
  \/ app = "v1" /\ pc \in {"aggregate", "done"}

\* C7 as stated: with "all" at every level and no drug chosen the filter
\* returns the full loaded row-set unchanged.
C7_IdentityFilter ==
  (Filtered /\ AllLevels /\ ctl.search_pick = {}) =>
    filtered = (IF app = "poc" THEN loaded.smr ELSE loaded.df)

\* C7 as amended: with "all" at every level and no drug chosen the hierarchy
\* filter returns the full row-set unchanged (app_v1.py: filtered is df;
\* poc/app.py: smr_filtered is smr), and poc/app.py's frame df is then the
\* rows of smr whose agegroup is the chosen age stratum, in smr's order.
C7_IdentityUpToAge ==
  (Filtered /\ AllLevels /\ ctl.search_pick = {}) =>
    IF app = "v1" THEN filtered = loaded.df
    ELSE /\ hier = loaded.smr
         /\ filtered = SelectSeq(loaded.smr, LAMBDA r : r.agegroup = ctl.age)

\* C7 happens: poc/app.py with "All" everywhere, no drug chosen and a table
\* of two age groups, of which the age radio keeps one
C7_Witness ==
  /\ app = "poc" /\ pc = "adepick"
  /\ levelSel = <<All, All, All, All>> /\ ctl.search_pick = {}
  /\ hier = loaded.smr
  /\ Len(loaded.smr) = 2 /\ Len(filtered) = 1
  /\ \E k \in 1..4 : loaded.smr[1].l[k] # NaN

\* ------------------------------------------------------------------ C8
MissingTokens == {<<>>, <<" ">>, <<"N", "A">>, <<"n", "a", "n">>}

\* C8 as stated: no loaded row has a null or empty classification value.
C8_UnknownSentinel ==
  Loaded =>
    IF app = "poc"
    THEN \A i \in 1..Len(loaded.smr), k \in 1..4 :
           loaded.smr[i].l[k] \notin {NaN, <<>>}
    ELSE \A i \in 1..Len(loaded.df), k \in 1..4 :
           /\ loaded.df[i].L[k].code \notin {NaN, <<>>}
           /\ loaded.df[i].L[k].name \notin {NaN, <<>>}

\* C8 as amended: after load_data (app_v1.py) no row has a null or empty
\* classification code or name, and a missing one of a row that survives is
\* "(unknown)"; after load_smr (poc/app.py) there is no sentinel: a value
\* that is missing, blank or "nan" in the raw table is null, every other is
\* the raw value stripped, and none is the empty string.
C8_MissingLevels ==
  Loaded =>
    IF app = "poc"
    THEN \A j \in 1..Len(loaded.smr), k \in 1..4 :
           LET rawv == raw.smr[KeptIdx[j]].l[k]
           IN /\ loaded.smr[j].l[k] # <<>>
              /\ loaded.smr[j].l[k] # Unknown
              /\ loaded.smr[j].l[k] =
                   (IF rawv \in MissingTokens THEN NaN ELSE strip(rawv))
    ELSE /\ \A i \in 1..Len(loaded.df), k \in 1..4 :
              /\ loaded.df[i].L[k].code \notin {NaN, <<>>}
              /\ loaded.df[i].L[k].name \notin {NaN, <<>>}
         /\ (~raw.hasPubCount /\ Len(loaded.df) = Len(RealPubs)) =>
              \A i \in 1..Len(loaded.df), k \in 1..4 :
                loaded.df[i].L[k].code =
                  (IF RealPubs[i].L[k].code \in NaStrings THEN Unknown
                   ELSE RealPubs[i].L[k].code)

\* C8 happens: poc/app.py loads a row whose blank level is null while
\* another of its levels has a value
C8_Witness ==
  /\ app = "poc" /\ pc = "sidebar"
  /\ \E j \in 1..Len(loaded.smr) :
       /\ raw.smr[KeptIdx[j]].l[4] = <<>>
       /\ loaded.smr[j].l[4] = NaN
       /\ loaded.smr[j].l[1] = <<"N">>

\* ------------------------------------------------------------------ C9
\* poc/app.py: the number (in tenths) a raw metric cell stands for
TokenValue(t) ==
  CASE t = <<"0">> -> <<0>>
    [] t = <<"1">> -> <<10>>
    [] t = <<"2">> -> <<20>>
    [] t = <<"3">> -> <<30>>
    [] t = <<"5">> -> <<50>>
    [] t = <<"7">> -> <<70>>
    [] t = <<"1", "2">> -> <<120>>
    [] t = <<"1", "2", "5", "0">> -> <<12500>>
    [] t = <<"2", ".", "5">> -> <<25>>
    [] OTHER -> NaNum

RowCount(rows, r) == Cardinality({i \in 1..Len(rows) : rows[i] = r})

\* C10: a non-empty join result with a prr column is shown ordered by prr
\* descending, every record with a null prr after all the others, and holds
\* the records of the join, each as often as the join does.
C10_PrrOrder ==
  (app = "poc" /\ ade.view_defined /\ raw.hasPrr) =>
    LET v == ade.ade_view
        j == ade_join(loaded.prr, ade.cui_val, pick, ctl.age)
    IN /\ v # <<>>
       /\ Len(v) = Len(j)
       /\ \A i \in 1..Len(j) : RowCount(v, j[i]) = RowCount(j, j[i])
       /\ \A a, b \in 1..Len(v) :
            a < b => /\ v[a].prr = NaNum => v[b].prr = NaNum
                     /\ (v[a].prr # NaNum /\ v[b].prr # NaNum)
                          => v[a].prr[1] >= v[b].prr[1]

\* C10 happens: the join gives prr 3.2, null, 1.1 and the view 3.2, 1.1, null
C10_Witness ==
  /\ app = "poc" /\ pc = "adedownload" /\ raw.hasPrr /\ ctl.age = Total
  /\ [i \in 1..Len(loaded.prr) |-> loaded.prr[i].prr] = <<<<32>>, <<>>, <<11>>>>
  /\ [i \in 1..Len(ade.ade_view) |-> ade.ade_view[i].prr] = <<<<32>>, <<11>>, <<>>>>

\* ----------------------------------------------------------------- C11
\* the row-set as it is right after loading
AsLoaded ==
  IF app = "poc"
  THEN [smr |-> load_smr(raw.smr, raw.hasIsFirst),
        prr |-> load_prr(raw.prr, raw.hasPrr)]
  ELSE [df |-> load_data(raw.pubs, raw.hasPubCount, raw.rx)]

\* C11: at every point of every pass (hierarchy filter, age and drug filter,
\* display columns, sort, aggregation), whatever the selections, the loaded
\* row-set has the rows, columns, values and order it had right after
\* loading.
C11_LoadedNeverMutated == Loaded => loaded = AsLoaded

\* C11 happens: "All" at every level leaves smr_filtered bound to the loaded
\* frame itself, the display columns are derived and the sort reorders the
\* two rows, and the loaded frame has none of the new columns
C11_Witness ==
  /\ app = "poc" /\ pc = "adepick"
  /\ levelSel = <<All, All, All, All>>
  /\ smr_filtered_ref(levelSel) = "smr"
  /\ Len(loaded.smr) = 2 /\ Len(result.df) = 2
  /\ result.df[1].drug = loaded.smr[2].drug
  /\ result.df[1].drug # loaded.smr[1].drug
  /\ "Prescriptions" \in DOMAIN result.df[1]
  /\ "Prescriptions" \notin DOMAIN loaded.smr[1]

====
